---- MODULE Spec2Model ----
(***************************************************************************)
(* Model of bioimageio/core/prediction.py: padding (_pad, _apply_crop),    *)
(* tile planning (_get_tiling), tiled prediction (predict_with_tiling,     *)
(* _predict_with_tiling_impl), shape resolution (_determine_shape,         *)
(* _parse_tiling) and the dispatch in _predict_sample.                     *)
(*                                                                         *)
(* Python values are modelled as follows.                                  *)
(*   None / an int n        the sequences <<>> and <<n>> (an optional)     *)
(*   slice(a, b)            [start |-> a, stop |-> b], a and b optionals   *)
(*   dict                   a function on its keys                         *)
(*   ndarray / DataArray    [dims, shape, data], data a function on the    *)
(*                          0-based index tuples of shape                  *)
(*   a raised exception     [status |-> "<exception class>"]               *)
(*   pad_right              [kind, b, l]: kind "bool" with the bool b, or  *)
(*                          kind "list" with the list l of optionals       *)
(***************************************************************************)
EXTENDS Integers, Sequences, FiniteSets, TLC

VARIABLES
    \* one call of _pad followed by _apply_crop
    pad_pc, pad_im, pad_axes, pad_padding, pad_right, pad_res, pad_back,
    \* one generator made by _get_tiling and the tiles pulled from it
    plan_pc, plan_shape, plan_tile_shape, plan_halo, plan_axes, plan_yielded,
    \* one call of predict_with_tiling: its arguments, the state of the tile
    \* loop (til_call, the tiles done til_k, the outputs being filled), the
    \* exception raised, and how often each output element was assigned
    til_pc, til_pipeline, til_inputs, til_tiling, til_outputs_arg,
    til_call, til_k, til_outputs, til_exc, til_writes,
    \* one call of _predict_sample: its arguments (smp_files are the arrays
    \* stored at the input paths), the arrays loaded, the prediction function
    \* it called, the result, the arrays saved and the exception raised
    smp_pc, smp_pipeline, smp_files, smp_padding, smp_tiling,
    smp_input_data, smp_called, smp_result, smp_saved, smp_exc,
    \* one call of _determine_shape: its arguments, the position of the for
    \* loop, len_ax and the shape built so far
    shp_pc, shp_min_shape, shp_step, shp_axes, shp_k, shp_len_ax, shp_shape

padVars == <<pad_pc, pad_im, pad_axes, pad_padding, pad_right, pad_res, pad_back>>

planVars == <<plan_pc, plan_shape, plan_tile_shape, plan_halo, plan_axes, plan_yielded>>

tilArgs == <<til_pipeline, til_inputs, til_tiling, til_outputs_arg>>

tilVars == <<til_pc, tilArgs, til_call, til_k, til_outputs, til_exc, til_writes>>

smpArgs == <<smp_pipeline, smp_files, smp_padding, smp_tiling>>

smpVars == <<smp_pc, smpArgs, smp_input_data, smp_called, smp_result, smp_saved, smp_exc>>

shpArgs == <<shp_min_shape, shp_step, shp_axes>>

shpVars == <<shp_pc, shpArgs, shp_k, shp_len_ax, shp_shape>>

vars == <<padVars, planVars, tilVars, smpVars, shpVars>>

----------------------------------------------------------------------------
\* The values the variables of a component hold in the specifications that
\* do not run it

None == <<>>

PadIdle ==
    /\ pad_pc = "idle"
    /\ pad_im = None
    /\ pad_axes = <<>>
    /\ pad_padding = None
    /\ pad_right = None
    /\ pad_res = None
    /\ pad_back = None

PlanIdle ==
    /\ plan_pc = "idle"
    /\ plan_shape = <<>>
    /\ plan_tile_shape = None
    /\ plan_halo = None
    /\ plan_axes = <<>>
    /\ plan_yielded = <<>>

TilIdle ==
    /\ til_pc = "idle"
    /\ til_pipeline = None
    /\ til_inputs = None
    /\ til_tiling = None
    /\ til_outputs_arg = None
    /\ til_call = None
    /\ til_k = 0
    /\ til_outputs = None
    /\ til_exc = None
    /\ til_writes = None

SmpIdle ==
    /\ smp_pc = "idle"
    /\ smp_pipeline = None
    /\ smp_files = None
    /\ smp_padding = None
    /\ smp_tiling = None
    /\ smp_input_data = None
    /\ smp_called = "none"
    /\ smp_result = None
    /\ smp_saved = None
    /\ smp_exc = None

ShpIdle ==
    /\ shp_pc = "idle"
    /\ shp_min_shape = <<>>
    /\ shp_step = <<>>
    /\ shp_axes = <<>>
    /\ shp_k = 0
    /\ shp_len_ax = 0
    /\ shp_shape = <<>>

----------------------------------------------------------------------------
\* Bounds of the padding specification.
MaxPadExtent == 3
MaxPadTarget == 4
MaxPadBatch == 2

\* Bounds of the tile planner specification.
MaxPlanExtent == 3
MaxPlanTile == 3
MaxPlanHalo == 2
MaxPlanBatch == 1

\* Bounds of the tiled prediction specification.
MaxTilExtent == 3
MaxTilTile == 2
MaxTilHalo == 2
MaxTilBatch == 2

\* Bounds of the _predict_sample specification.
MaxSmpExtent == 2
MaxSmpBatch == 2

\* Bounds of the shape resolver specification: how far below the reference
\* length a minimum extent lies, and the step.
MaxShpGap == 3
MaxShpStep == 2

----------------------------------------------------------------------------
\* Python values

Some(n) == <<n>>

slice(start, stop) == [start |-> start, stop |-> stop]

full_slice == slice(None, None)

Min2(a, b) == IF a <= b THEN a ELSE b

Max2(a, b) == IF a >= b THEN a ELSE b

Raise(exc) == [status |-> exc]

\* `ax in "zyx"` for a one-letter axis name
IsSpatial(ax) == ax \in {"z", "y", "x"}

InAxes(ax, axes) == \E k \in 1..Len(axes) : axes[k] = ax

\* slice.indices(n) with step 1: the half-open range [lo, hi) a slice selects
\* on an axis of length n
SliceIndices(s, n) ==
    LET clip(v) == IF v < 0 THEN Max2(v + n, 0) ELSE Min2(v, n)
        lo == IF s.start = None THEN 0 ELSE clip(s.start[1])
        hi == IF s.stop = None THEN n ELSE clip(s.stop[1])
    IN  [lo |-> lo, hi |-> Max2(hi, lo)]

RECURSIVE Indices(_)
Indices(shape) ==
    IF shape = <<>> THEN {<<>>}
    ELSE {<<i>> \o rest : i \in 0..(Head(shape) - 1), rest \in Indices(Tail(shape))}

\* basic indexing of an array with one slice per dimension
Index(arr, slices) ==
    LET n == Len(arr.shape)
        rng == [k \in 1..n |-> SliceIndices(slices[k], arr.shape[k])]
        shp == [k \in 1..n |-> rng[k].hi - rng[k].lo]
    IN  [dims |-> arr.dims, shape |-> shp,
         data |-> [idx \in Indices(shp) |-> arr.data[[k \in 1..n |-> idx[k] + rng[k].lo]]]]

\* np.pad(..., mode="symmetric"): position j (relative to the data, possibly
\* negative or past the end) mirrors about the edges, edge value included
Symmetric(j, n) ==
    LET m == j % (2 * n)
    IN  IF m < n THEN m ELSE 2 * n - 1 - m

np_pad(im, pad_width) ==
    LET n == Len(im.shape)
        shp == [k \in 1..n |-> pad_width[k][1] + im.shape[k] + pad_width[k][2]]
    IN  [dims |-> im.dims, shape |-> shp,
         data |-> [idx \in Indices(shp) |->
                     im.data[[k \in 1..n |-> Symmetric(idx[k] - pad_width[k][1], im.shape[k])]]]]

\* an array whose element at idx is a number naming idx: no two elements agree
RECURSIVE Linear(_, _)
Linear(idx, shape) ==
    IF idx = <<>> THEN 0
    ELSE LET k == Len(idx)
         IN  idx[k] + shape[k] * Linear(SubSeq(idx, 1, k - 1), SubSeq(shape, 1, k - 1))

Distinct(dims, shape) ==
    [dims |-> dims, shape |-> shape,
     data |-> [idx \in Indices(shape) |-> 1 + Linear(idx, shape)]]

ShapesOf(axes, maxSpatial, maxOther) ==
    {shp \in [1..Len(axes) -> 1..Max2(maxSpatial, maxOther)] :
        \A k \in 1..Len(axes) :
            shp[k] <= (IF IsSpatial(axes[k]) THEN maxSpatial ELSE maxOther)}

----------------------------------------------------------------------------
\* _pad

\* (mutant) fixed mode pads by the target instead of by what is missing to it
PadWidthWholeTarget(mode, pad_to, dlen) ==
    IF mode = "dynamic"
    THEN LET r == dlen % pad_to IN IF r = 0 THEN 0 ELSE pad_to - r
    ELSE pad_to

\* the padding width of one spatial axis (lines 75-82)
PadWidth(mode, pad_to, dlen) ==
    IF mode = "dynamic"
    THEN LET r == dlen % pad_to IN IF r = 0 THEN 0 ELSE pad_to - r
    ELSE pad_to - dlen

\* (mutant) the crop keeps the leading dlen elements whatever side was padded
PadCropLeading(pr, pwidth, dlen) == slice(Some(0), Some(dlen))

\* the crop that undoes the padding of one spatial axis (line 85)
PadCrop(pr, pwidth, dlen) ==
    IF pr THEN slice(Some(0), Some(dlen)) ELSE slice(Some(pwidth), None)

_pad(im, axes, padding, padright) ==
    LET mode == IF "mode" \in DOMAIN padding THEN padding["mode"] ELSE "dynamic"
        padding_ == DOMAIN padding \ {"mode"}
        is_volume == InAxes("z", axes)
        \* lines 65-66: a bool is broadcast to every axis
        pr == IF padright.kind = "bool"
              THEN [k \in 1..Len(axes) |-> Some(padright.b)]
              ELSE padright.l
        n == Min2(Len(axes), Min2(Len(im.shape), Len(pr)))
        \* what the loop body does at position k: a KeyError, the
        \* ZeroDivisionError of line 76, the RuntimeError of line 81, or nothing
        Fault(k) ==
            IF ~IsSpatial(axes[k]) THEN "none"
            ELSE IF axes[k] \notin padding_ THEN "KeyError"
            ELSE IF mode = "dynamic" /\ padding[axes[k]] = 0 THEN "ZeroDivisionError"
            ELSE IF mode = "fixed" /\ padding[axes[k]] < im.shape[k] THEN "RuntimeError"
            ELSE "none"
        bad == {k \in 1..n : Fault(k) # "none"}
        pwidth(k) == PadWidth(mode, padding[axes[k]], im.shape[k])
        pad_width == [k \in 1..n |->
                        IF ~IsSpatial(axes[k]) THEN <<0, 0>>
                        ELSE IF pr[k] = Some(TRUE) THEN <<0, pwidth(k)>>
                        ELSE <<pwidth(k), 0>>]
        crop == [ax \in {axes[k] : k \in 1..n} |->
                    LET k == CHOOSE j \in 1..n : axes[j] = ax
                    IN  IF IsSpatial(ax)
                        THEN PadCrop(pr[k] = Some(TRUE), pwidth(k), im.shape[k])
                        ELSE full_slice]
    IN  IF Len(im.shape) # Len(axes) THEN Raise("AssertionError")
        ELSE IF mode \notin {"dynamic", "fixed"} THEN Raise("AssertionError")
        ELSE IF Cardinality(padding_) # (IF is_volume THEN 3 ELSE 2) THEN Raise("AssertionError")
        ELSE IF bad # {}
             THEN Raise(Fault(CHOOSE k \in bad : \A j \in bad : k <= j))
        ELSE [status |-> "ok", im |-> np_pad(im, pad_width), crop |-> crop]

\* _apply_crop
_apply_crop(data, crop) ==
    Index(data, [k \in 1..Len(data.dims) |-> crop[data.dims[k]]])

\* xr.DataArray(im, dims=axes)
DataArray(im, axes) == [dims |-> axes, shape |-> im.shape, data |-> im.data]

----------------------------------------------------------------------------
\* The prediction pipeline and the prediction functions
\*
\* A pipeline is [input_specs, output_specs], lists of
\*   input spec   [name, axes, shape], shape = [kind, list, min, step] with
\*                kind "list" (a fixed shape) or "param" (min and step)
\*   output spec  [axes, shape, halo], shape = [kind, list, scale, offset,
\*                reference_tensor] with kind "list" or "implicit", halo an
\*                optional list
\* Its forward function is the identity predictor. The inputs argument of a
\* prediction function is [kind, items]: kind "list" for a list of arrays,
\* kind "array" for a bare array, held as items[1]. A settings argument
\* (padding, tiling) is [kind, b, d]: kind "None", kind "bool" with the bool
\* b, or kind "dict" with the dict d.

ListShape(l) == [kind |-> "list", list |-> l, min |-> <<>>, step |-> <<>>]

ParamShape(min, step) == [kind |-> "param", list |-> <<>>, min |-> min, step |-> step]

\* an output shape that follows the reference input: scale 1 and offset 0
IdentityShape(axes, ref) ==
    [kind |-> "implicit", list |-> <<>>, scale |-> [k \in 1..Len(axes) |-> 1],
     offset |-> [k \in 1..Len(axes) |-> 0], reference_tensor |-> ref]

Settings(kind, b, d) == [kind |-> kind, b |-> b, d |-> d]

NoSetting == Settings("None", FALSE, <<>>)

BoolSetting(b) == Settings("bool", b, <<>>)

DictSetting(d) == Settings("dict", FALSE, d)

\* `not x` for a settings argument: None, False and the empty dict are falsy
Falsy(x) ==
    \/ x.kind = "None"
    \/ x.kind = "bool" /\ ~x.b
    \/ x.kind = "dict" /\ DOMAIN x.d = {}

\* len(inputs): of a list its length, of an array the length of its first
\* dimension
PyLen(inputs) ==
    IF inputs.kind = "list" THEN Len(inputs.items) ELSE inputs.items[1].shape[1]

\* `if not isinstance(inputs, (tuple, list)): inputs = [inputs]`
AsList(inputs) == inputs.items

\* dict.get(key, default)
DictGet(d, key, default) == IF key \in DOMAIN d THEN d[key] ELSE default

\* predict: tags every input with its spec's axes and runs the predictor
predict(pipeline, inputs) ==
    IF PyLen(inputs) # Len(pipeline.input_specs) THEN Raise("AssertionError")
    ELSE [status |-> "ok",
          result |-> [k \in 1..Min2(Len(AsList(inputs)), Len(pipeline.input_specs)) |->
                        DataArray(AsList(inputs)[k], pipeline.input_specs[k].axes)]]

\* {ax: v for ax, v in zip(axes, values) if ax in "xyz"}
SpatialZip(axes, values) ==
    LET n == Min2(Len(axes), Len(values))
    IN  [ax \in {axes[k] : k \in {j \in 1..n : IsSpatial(axes[j])}} |->
            values[CHOOSE k \in 1..n : axes[k] = ax]]

_parse_padding(padding, input_specs) ==
    IF padding.kind = "None" THEN [status |-> "ok", padding |-> padding]
    ELSE IF Len(input_specs) > 1 THEN Raise("NotImplementedError")
    ELSE LET input_spec == input_specs[1]
             pad_keys == {input_spec.axes[k] : k \in 1..Len(input_spec.axes)} \cup {"mode"}
             check_padding(d) == DOMAIN d \subseteq pad_keys
             derived ==
                IF input_spec.shape.kind = "list"
                THEN SpatialZip(input_spec.axes, input_spec.shape.list) @@ [mode |-> "fixed"]
                ELSE SpatialZip(input_spec.axes, input_spec.shape.step) @@ [mode |-> "dynamic"]
         IN  IF padding.kind = "dict"
             THEN IF check_padding(padding.d) THEN [status |-> "ok", padding |-> padding]
                  ELSE Raise("AssertionError")
             ELSE IF padding.b
                  THEN IF check_padding(derived)
                       THEN [status |-> "ok", padding |-> DictSetting(derived)]
                       ELSE Raise("AssertionError")
                  ELSE [status |-> "ok", padding |-> NoSetting]

predict_with_padding(pipeline, inputs, padding, padright) ==
    IF Falsy(padding) THEN Raise("ValueError")
    ELSE IF PyLen(inputs) # Len(pipeline.input_specs) THEN Raise("AssertionError")
    ELSE LET parsed == _parse_padding(padding, pipeline.input_specs)
             ins == AsList(inputs)
         IN  IF parsed.status # "ok" THEN parsed
             ELSE LET n == Min2(Len(ins), Len(pipeline.input_specs))
                      padded == [k \in 1..n |->
                                    _pad(ins[k], pipeline.input_specs[k].axes,
                                         parsed.padding.d, padright)]
                      bad == {k \in 1..n : padded[k].status # "ok"}
                  IN  IF bad # {} THEN padded[CHOOSE k \in bad : \A j \in bad : k <= j]
                      ELSE LET result == predict(pipeline,
                                   [kind |-> "list", items |-> [k \in 1..n |-> padded[k].im]])
                           IN  IF result.status # "ok" THEN result
                               ELSE [status |-> "ok",
                                     result |-> [k \in 1..n |->
                                        _apply_crop(result.result[k], padded[k].crop)]]

----------------------------------------------------------------------------
\* _get_tiling

SpatialAxes(axes) == SelectSeq(axes, IsSpatial)

\* [sh for sh, ax in zip(shape, input_axes) if ax in "xyz"] (line 156)
SpatialShape(shape, axes) ==
    LET at == SelectSeq([k \in 1..Len(axes) |-> k], LAMBDA k : IsSpatial(axes[k]))
    IN  [k \in 1..Len(at) |-> shape[at[k]]]

\* (mutant) the partial tile at the end of an axis is dropped
NumTilesFloor(sh, tsh) == sh \div tsh

\* the number of tiles along one axis (line 162)
NumTiles(sh, tsh) == IF sh % tsh = 0 THEN sh \div tsh ELSE sh \div tsh + 1

\* (mutant) the halo is not clipped at the end of the array
OuterRangeUnclipped(pos, tsh, sh, ha) == slice(Some(Max2(pos - ha, 0)), Some(pos + tsh + ha))

\* the outer window of one axis (line 169)
OuterRange(pos, tsh, sh, ha) == slice(Some(Max2(pos - ha, 0)), Some(Min2(pos + tsh + ha, sh)))

\* (mutant) the last tile's inner window runs past the end of the array
InnerRangeUnclipped(pos, tsh, sh) == slice(Some(pos), Some(pos + tsh))

\* the inner window of one axis (line 176)
InnerRange(pos, tsh, sh) == slice(Some(pos), Some(Min2(pos + tsh, sh)))

\* (mutant) the trailing halo is never trimmed
LocalRangeOpen(outer, inner) == slice(Some(inner.start[1] - outer.start[1]), None)

\* the local window of one axis (lines 182-185)
LocalRange(outer, inner) ==
    slice(Some(inner.start[1] - outer.start[1]),
          IF outer.stop # inner.stop THEN Some(-(outer.stop[1] - inner.stop[1])) ELSE None)

\* product of the first k entries of a sequence of numbers
RECURSIVE Prod(_, _)
Prod(seq, k) == IF k = 0 THEN 1 ELSE seq[k] * Prod(seq, k - 1)

\* itertools.product(*ranges): element j (from 0) in lexicographic order, the
\* last range varying fastest
ProductAt(ranges, j) ==
    LET n == Len(ranges)
        \* the number of combinations of the ranges after position k
        after(k) == Prod([i \in 1..(n - k) |-> ranges[k + i]], n - k)
    IN  [k \in 1..n |-> (j \div after(k)) % ranges[k]]

TilingRanges(shape, tile_shape, input_axes) ==
    LET shape_ == SpatialShape(shape, input_axes)
        spatial_axes == SpatialAxes(input_axes)
    IN  [k \in 1..Len(spatial_axes) |-> NumTiles(shape_[k], tile_shape[spatial_axes[k]])]

TilingLen(shape, tile_shape, input_axes) ==
    LET ranges == TilingRanges(shape, tile_shape, input_axes)
    IN  Prod(ranges, Len(ranges))

\* the tile the generator yields for one start_point (lines 166-191)
TileOf(shape, tile_shape, halo, input_axes, start_point) ==
    LET shape_ == SpatialShape(shape, input_axes)
        spatial_axes == SpatialAxes(input_axes)
        n == Len(spatial_axes)
        at(ax) == CHOOSE k \in 1..n : spatial_axes[k] = ax
        positions == [k \in 1..n |-> start_point[k] * tile_shape[spatial_axes[k]]]
        keys == {spatial_axes[k] : k \in 1..n} \cup {"b", "c"}
        outer_tile == [ax \in keys |->
            IF ax \in {"b", "c"} THEN full_slice
            ELSE OuterRange(positions[at(ax)], tile_shape[ax], shape_[at(ax)], halo[ax])]
        inner_tile == [ax \in keys |->
            IF ax \in {"b", "c"} THEN full_slice
            ELSE InnerRange(positions[at(ax)], tile_shape[ax], shape_[at(ax)])]
        local_tile == [ax \in keys |->
            IF ax \in {"b", "c"} THEN full_slice
            ELSE LocalRange(outer_tile[ax], inner_tile[ax])]
    IN  [start_point |-> start_point, outer |-> outer_tile, inner |-> inner_tile,
         local |-> local_tile]

\* the j-th tile (from 0) of _get_tiling(shape, tile_shape, halo, input_axes)
_get_tiling(shape, tile_shape, halo, input_axes, j) ==
    TileOf(shape, tile_shape, halo, input_axes,
           ProductAt(TilingRanges(shape, tile_shape, input_axes), j))

----------------------------------------------------------------------------
\* _determine_shape and _parse_tiling

\* the reference lengths of _determine_shape
MinLen3D == 64
MinLen2D == 256

\* min_len (lines 346-347)
MinLenOf(axes) == IF InAxes("z", axes) THEN MinLen3D ELSE MinLen2D

\* whether an axis enters the while loop (line 350)
Grows(ax, step_ax) == IsSpatial(ax) /\ step_ax > 0

\* (mutant) the loop also steps when the reference length is already met
WhileCondInclusive(len_ax, min_len) == len_ax <= min_len

\* the condition of the while loop (line 352)
WhileCond(len_ax, min_len) == len_ax < min_len

\* the while loop (lines 352-353) run to its end
RECURSIVE GrowLen(_, _, _)
GrowLen(len_ax, step_ax, min_len) ==
    IF WhileCond(len_ax, min_len) THEN GrowLen(len_ax + step_ax, step_ax, min_len) ELSE len_ax

_determine_shape(min_shape, step, axes) ==
    LET min_len == MinLenOf(axes)
        n == Min2(Len(axes), Min2(Len(min_shape), Len(step)))
    IN  [k \in 1..n |->
            IF Grows(axes[k], step[k]) THEN GrowLen(min_shape[k], step[k], min_len)
            ELSE min_shape[k]]

\* (mutant) a halo of 0 is accepted
HaloValidNonNegative(h) == h >= 0

\* the test check_tiling makes of one halo entry (line 377)
HaloValid(h) == h > 0

\* check_tiling (lines 372-378) of a tiling dict holding "halo" and "tile"
check_tiling(tiling, axes) ==
    \A k \in 1..Len(axes) : IsSpatial(axes[k]) =>
        /\ HaloValid(DictGet(tiling["halo"], axes[k], 0))
        /\ DictGet(tiling["tile"], axes[k], 0) > 0

_parse_tiling(tiling, input_specs, output_specs) ==
    IF tiling.kind = "None" THEN [status |-> "ok", tiling |-> tiling]
    ELSE IF Len(input_specs) > 1 THEN Raise("NotImplementedError")
    ELSE IF Len(output_specs) > 1 THEN Raise("NotImplementedError")
    ELSE LET input_spec == input_specs[1]
             output_spec == output_specs[1]
             axes == input_spec.axes
             shape == IF input_spec.shape.kind = "list" THEN input_spec.shape.list
                      ELSE _determine_shape(input_spec.shape.min, input_spec.shape.step, axes)
             derived == [halo |-> SpatialZip(axes, output_spec.halo[1]),
                         tile |-> SpatialZip(axes, shape)]
         IN  IF tiling.kind = "dict"
             THEN IF check_tiling(tiling.d, axes) THEN [status |-> "ok", tiling |-> tiling]
                  ELSE Raise("AssertionError")
             ELSE IF tiling.b
                  THEN IF Len(shape) # Len(axes) THEN Raise("AssertionError")
                       ELSE IF output_spec.halo = None THEN Raise("ValueError")
                       ELSE IF check_tiling(derived, axes)
                            THEN [status |-> "ok", tiling |-> DictSetting(derived)]
                            ELSE Raise("AssertionError")
                  ELSE [status |-> "ok", tiling |-> NoSetting]

----------------------------------------------------------------------------
\* predict_with_tiling and _predict_with_tiling_impl

\* np.zeros(output_shape) tagged with the output axes (lines 468-470)
Zeros(dims, shape) ==
    [dims |-> dims, shape |-> shape, data |-> [idx \in Indices(shape) |-> 0]]

\* the output arrays predict_with_tiling allocates (lines 447-470), or the
\* exception raised while allocating them
AllocateOutputs(pipeline, named_inputs) ==
    LET n == Len(pipeline.output_specs)
        unsupported(spec) ==
            /\ spec.shape.kind = "implicit"
            /\ \E k \in 1..Len(spec.axes) :
                  IsSpatial(spec.axes[k]) /\ (spec.shape.scale[k] # 1 \/ spec.shape.offset[k] # 0)
        shape_of(spec) ==
            IF spec.shape.kind = "implicit"
            THEN LET ref == named_inputs[spec.shape.reference_tensor]
                     ref_len(ax) == ref.shape[CHOOSE j \in 1..Len(ref.dims) : ref.dims[j] = ax]
                 IN  [k \in 1..Len(spec.axes) |->
                        spec.shape.scale[k] * ref_len(spec.axes[k]) + 2 * spec.shape.offset[k]]
            ELSE spec.shape.list
    IN  IF \E k \in 1..n : unsupported(pipeline.output_specs[k])
        THEN Raise("NotImplementedError")
        ELSE [status |-> "ok",
              outputs |-> [k \in 1..n |->
                  Zeros(pipeline.output_specs[k].axes, shape_of(pipeline.output_specs[k]))]]

\* (mutant) no check of a supplied buffer's shape
ShapesDifferNever(in_shape, out_shape) == FALSE

\* the comparison of lines 480-482: every axis is compared, no axis is left out
ShapesDiffer(in_shape, out_shape) == in_shape # out_shape

\* tuple(sh for ax, sh in zip(axes, shape))
ZipShape(axes, shape) == SubSeq(shape, 1, Min2(Len(axes), Len(shape)))

\* predict_with_tiling up to the tile loop: the parsed tiling and the output
\* arrays to fill, or the exception raised (lines 432-483, 203-210)
TilingEntry(pipeline, inputs, tiling, outputs) ==
    IF Falsy(tiling) THEN Raise("ValueError")
    ELSE IF PyLen(inputs) # Len(pipeline.input_specs) THEN Raise("AssertionError")
    ELSE LET parsed == _parse_tiling(tiling, pipeline.input_specs, pipeline.output_specs)
             ins == AsList(inputs)
             n == Min2(Len(ins), Len(pipeline.input_specs))
             named_inputs == [name \in {pipeline.input_specs[k].name : k \in 1..n} |->
                 LET k == CHOOSE j \in 1..n : pipeline.input_specs[j].name = name
                 IN  DataArray(ins[k], pipeline.input_specs[k].axes)]
             values == [k \in 1..n |-> named_inputs[pipeline.input_specs[k].name]]
             allocated == AllocateOutputs(pipeline, named_inputs)
             outs == IF outputs = None THEN allocated.outputs ELSE outputs[1]
         IN  IF parsed.status # "ok" THEN parsed
             ELSE IF outputs = None /\ allocated.status # "ok" THEN allocated
             ELSE IF outputs # None /\ Len(outputs[1]) # Len(pipeline.output_specs)
                  THEN Raise("ValueError")
             ELSE IF outputs # None /\ Len(outputs[1]) # Len(ins)
                  THEN Raise("NotImplementedError")
             ELSE IF outputs # None
                     /\ ShapesDiffer(ZipShape(pipeline.input_specs[1].axes, ins[1].shape),
                                     ZipShape(pipeline.output_specs[1].axes, outputs[1][1].shape))
                  THEN Raise("NotImplementedError")
             ELSE IF Len(values) > 1 THEN Raise("NotImplementedError")
             ELSE IF Len(outs) > 1 THEN Raise("NotImplementedError")
             ELSE [status |-> "ok", inputs |-> values, outputs |-> outs,
                   tile_shape |-> parsed.tiling.d["tile"], halo |-> parsed.tiling.d["halo"]]

\* data[tile] for a dict of slices: every dimension of data is a key of tile
ISel(data, tile) == Index(data, [k \in 1..Len(data.dims) |-> tile[data.dims[k]]])

\* load_tile (lines 225-230): the side each axis is padded on
TilePadRight(tile, input_axes) ==
    [kind |-> "list", b |-> FALSE,
     l |-> [k \in 1..Len(input_axes) |->
              IF IsSpatial(input_axes[k]) THEN Some(tile[input_axes[k]].start = Some(0))
              ELSE None]]

\* the padding of the per-tile prediction (lines 241-242)
TilePadding(tile_shape, halo, input_axes) ==
    [ax \in {input_axes[k] : k \in {j \in 1..Len(input_axes) : IsSpatial(input_axes[j])}} |->
        tile_shape[ax] + 2 * halo[ax]] @@ [mode |-> "fixed"]

\* lines 244-247 for one tile: the predicted tile, or the exception raised
TilePredict(pipeline, input_, tile_shape, halo, tile) ==
    LET inp == ISel(input_, tile.outer)
        out == predict_with_padding(pipeline, [kind |-> "array", items |-> <<inp>>],
                   DictSetting(TilePadding(tile_shape, halo, input_.dims)),
                   TilePadRight(tile.outer, input_.dims))
    IN  IF out.status # "ok" THEN out
        ELSE IF Len(out.result) # 1 THEN Raise("AssertionError")
        ELSE [status |-> "ok", out |-> out.result[1]]

\* the positions of output that output[inner_tile] selects
Region(output, inner_tile) ==
    LET n == Len(output.dims)
        rng == [k \in 1..n |-> SliceIndices(inner_tile[output.dims[k]], output.shape[k])]
    IN  {idx \in Indices(output.shape) : \A k \in 1..n : rng[k].lo <= idx[k] /\ idx[k] < rng[k].hi}

\* output[inner_tile] = value (line 248), for a value of the selected shape
SetItem(output, inner_tile, value) ==
    LET n == Len(output.dims)
        rng == [k \in 1..n |-> SliceIndices(inner_tile[output.dims[k]], output.shape[k])]
        region == Region(output, inner_tile)
    IN  [output EXCEPT !.data =
            [idx \in Indices(output.shape) |->
                IF idx \in region THEN value.data[[k \in 1..n |-> idx[k] - rng[k].lo]]
                ELSE output.data[idx]]]

\* the shape output[inner_tile] selects
RegionShape(output, inner_tile) ==
    LET n == Len(output.dims)
        rng == [k \in 1..n |-> SliceIndices(inner_tile[output.dims[k]], output.shape[k])]
    IN  [k \in 1..n |-> rng[k].hi - rng[k].lo]

----------------------------------------------------------------------------
\* The tile planner specification: a caller pulls the tiles of one generator

PlanLayouts == {<<"x">>, <<"y", "x">>, <<"b", "c", "y", "x">>}

\* a dict giving every spatial axis of axes a value of vals
SpatialDicts(axes, vals) == [{axes[k] : k \in {j \in 1..Len(axes) : IsSpatial(axes[j])}} -> vals]

\* the worked examples of the documentation
PlanExamples ==
    {[axes |-> <<"x">>, shape |-> <<10>>, tile |-> [x |-> 4], halo |-> [x |-> 2]],
     [axes |-> <<"y", "x">>, shape |-> <<9, 9>>, tile |-> [y |-> 4, x |-> 4],
      halo |-> [y |-> 1, x |-> 1]]}

PlanInputs(axes) ==
    {i \in PlanExamples : i.axes = axes}
    \cup {[axes |-> axes, shape |-> shp, tile |-> t, halo |-> h] :
            shp \in ShapesOf(axes, MaxPlanExtent, MaxPlanBatch),
            t \in SpatialDicts(axes, 1..MaxPlanTile),
            h \in SpatialDicts(axes, 0..MaxPlanHalo)}

PlanInit ==
    /\ plan_pc = "running"
    /\ \E axes \in PlanLayouts : \E i \in PlanInputs(axes) :
        /\ plan_axes = i.axes
        /\ plan_shape = i.shape
        /\ plan_tile_shape = i.tile
        /\ plan_halo = i.halo
    /\ plan_yielded = <<>>

\* next(tiles) yields the next tile
PlanYield ==
    /\ plan_pc = "running"
    /\ Len(plan_yielded) < TilingLen(plan_shape, plan_tile_shape, plan_axes)
    /\ plan_yielded' = Append(plan_yielded,
          _get_tiling(plan_shape, plan_tile_shape, plan_halo, plan_axes, Len(plan_yielded)))
    /\ UNCHANGED <<plan_pc, plan_shape, plan_tile_shape, plan_halo, plan_axes>>
    /\ UNCHANGED <<padVars, tilVars, smpVars, shpVars>>

\* next(tiles) finds the product exhausted
PlanStop ==
    /\ plan_pc = "running"
    /\ Len(plan_yielded) = TilingLen(plan_shape, plan_tile_shape, plan_axes)
    /\ plan_pc' = "exhausted"
    /\ UNCHANGED <<plan_shape, plan_tile_shape, plan_halo, plan_axes, plan_yielded>>
    /\ UNCHANGED <<padVars, tilVars, smpVars, shpVars>>

PlanNext == PlanYield \/ PlanStop

----------------------------------------------------------------------------
\* Inputs of the padding specification

PadLayouts == {<<"y", "x">>, <<"b", "y", "x">>}

PadModes == {"dynamic", "fixed"}

PadSpecs ==
    {[mode |-> m, y |-> ty, x |-> tx] : m \in PadModes, ty \in 1..MaxPadTarget, tx \in 1..MaxPadTarget}
    \cup {[y |-> ty, x |-> tx] : ty \in 1..MaxPadTarget, tx \in 1..MaxPadTarget}

PadSides(axes) ==
    {[kind |-> "bool", b |-> b, l |-> <<>>] : b \in BOOLEAN}
    \cup {[kind |-> "list", b |-> FALSE, l |-> l] :
            l \in {l \in [1..Len(axes) -> {Some(TRUE), Some(FALSE), None}] :
                     \A k \in 1..Len(axes) : (l[k] = None) <=> ~IsSpatial(axes[k])}}

PadInit ==
    /\ pad_pc = "start"
    /\ pad_axes \in PadLayouts
    /\ \E shp \in ShapesOf(pad_axes, MaxPadExtent, MaxPadBatch) : pad_im = Distinct(<<>>, shp)
    /\ pad_padding \in PadSpecs
    /\ pad_right \in PadSides(pad_axes)
    /\ pad_res = None
    /\ pad_back = None

\* im, crop = _pad(im, axes, padding, pad_right)
PadCall ==
    /\ pad_pc = "start"
    /\ pad_res' = _pad(pad_im, pad_axes, pad_padding, pad_right)
    /\ pad_pc' = IF pad_res'.status = "ok" THEN "padded" ELSE "raised"
    /\ UNCHANGED <<pad_im, pad_axes, pad_padding, pad_right, pad_back>>
    /\ UNCHANGED <<planVars, tilVars, smpVars, shpVars>>

\* _apply_crop(xr.DataArray(im, dims=axes), crop)
CropCall ==
    /\ pad_pc = "padded"
    /\ pad_back' = _apply_crop(DataArray(pad_res.im, pad_axes), pad_res.crop)
    /\ pad_pc' = "cropped"
    /\ UNCHANGED <<pad_im, pad_axes, pad_padding, pad_right, pad_res>>
    /\ UNCHANGED <<planVars, tilVars, smpVars, shpVars>>

PadNext == PadCall \/ CropCall

----------------------------------------------------------------------------
\* The tiled prediction specification: one call of predict_with_tiling with
\* the identity predictor, the tile loop taken one tile at a time

TilAxes == <<"b", "c", "y", "x">>

\* a pipeline with one input and one output of the input's shape
TilPipeline(declared, halo) ==
    [input_specs |-> <<[name |-> "input0", axes |-> TilAxes, shape |-> declared]>>,
     output_specs |-> <<[axes |-> TilAxes, shape |-> IdentityShape(TilAxes, "input0"),
                         halo |-> halo]>>]

\* a buffer the caller filled with -1
Filled(dims, shape) ==
    [dims |-> dims, shape |-> shape, data |-> [idx \in Indices(shape) |-> -1]]

TilShapes == {shp \in ShapesOf(TilAxes, MaxTilExtent, MaxTilBatch) : shp[2] = 1}

\* explicit tiling settings, with any pipeline
TilExplicit ==
    {[pipeline |-> TilPipeline(ListShape(<<1, 1, 1, 1>>), None),
      tiling |-> DictSetting([halo |-> h, tile |-> t])] :
        h \in SpatialDicts(TilAxes, 0..MaxTilHalo), t \in SpatialDicts(TilAxes, 1..MaxTilTile)}

\* tiling=True with a pipeline that declares a fixed input shape, with or
\* without a halo
TilAutomatic ==
    {[pipeline |-> TilPipeline(ListShape(<<1, 1, t, t>>), h), tiling |-> BoolSetting(TRUE)] :
        t \in 1..MaxTilTile, h \in {None} \cup {Some(<<0, 0, v, v>>) : v \in 0..MaxTilHalo}}

\* tiling switched off
TilDisabled ==
    {[pipeline |-> TilPipeline(ListShape(<<1, 1, 1, 1>>), None), tiling |-> t] :
        t \in {NoSetting, BoolSetting(FALSE), DictSetting(<<>>)}}

\* the buffers a caller supplies for an input of shape shp: none, one of the
\* input's shape, or one longer by 1 on one axis
TilBuffers(shp) ==
    {None, Some(<<Filled(TilAxes, shp)>>)}
    \cup {Some(<<Filled(TilAxes, [shp EXCEPT ![k] = @ + 1])>>) : k \in 1..Len(shp)}

TilInit ==
    /\ til_pc = "call"
    /\ \E shp \in TilShapes :
        /\ til_inputs = [kind |-> "list", items |-> <<Distinct(TilAxes, shp)>>]
        /\ til_outputs_arg \in TilBuffers(shp)
    /\ \E c \in TilExplicit \cup TilAutomatic \cup TilDisabled :
        /\ til_pipeline = c.pipeline
        /\ til_tiling = c.tiling
    /\ til_call = None
    /\ til_k = 0
    /\ til_outputs = None
    /\ til_exc = None
    /\ til_writes = None

\* predict_with_tiling up to the first tile
TilEnter ==
    /\ til_pc = "call"
    /\ LET entry == TilingEntry(til_pipeline, til_inputs, til_tiling, til_outputs_arg)
       IN  IF entry.status = "ok"
           THEN /\ til_pc' = "loop"
                /\ til_call' = Some([input_ |-> entry.inputs[1], tile_shape |-> entry.tile_shape,
                                     halo |-> entry.halo])
                /\ til_outputs' = Some(entry.outputs)
                /\ til_writes' = Some([idx \in Indices(entry.outputs[1].shape) |-> 0])
                /\ UNCHANGED til_exc
           ELSE /\ til_pc' = "raised"
                /\ til_exc' = Some(entry.status)
                /\ UNCHANGED <<til_call, til_outputs, til_writes>>
    /\ UNCHANGED <<tilArgs, til_k>>
    /\ UNCHANGED <<padVars, planVars, smpVars, shpVars>>

TilLen == TilingLen(til_call[1].input_.shape, til_call[1].tile_shape, til_call[1].input_.dims)

\* the tile the loop handles after k tiles
TilTileAt(k) ==
    _get_tiling(til_call[1].input_.shape, til_call[1].tile_shape, til_call[1].halo,
                til_call[1].input_.dims, k)

\* one pass of the loop of lines 243-248
TilTile ==
    /\ til_pc = "loop"
    /\ til_k < TilLen
    /\ LET tile == TilTileAt(til_k)
           output == til_outputs[1][1]
           res == TilePredict(til_pipeline, til_call[1].input_, til_call[1].tile_shape,
                              til_call[1].halo, tile)
           value == ISel(res.out, tile.local)
       IN  IF res.status # "ok"
           THEN /\ til_pc' = "raised"
                /\ til_exc' = Some(res.status)
                /\ UNCHANGED <<til_k, til_outputs, til_writes>>
           ELSE IF value.shape # RegionShape(output, tile.inner)
           THEN /\ til_pc' = "raised"
                /\ til_exc' = Some("ValueError")
                /\ UNCHANGED <<til_k, til_outputs, til_writes>>
           ELSE /\ til_outputs' = Some([til_outputs[1] EXCEPT ![1] = SetItem(output, tile.inner, value)])
                /\ til_writes' = Some([idx \in DOMAIN til_writes[1] |->
                                        IF idx \in Region(output, tile.inner)
                                        THEN til_writes[1][idx] + 1 ELSE til_writes[1][idx]])
                /\ til_k' = til_k + 1
                /\ UNCHANGED <<til_pc, til_exc>>
    /\ UNCHANGED <<tilArgs, til_call>>
    /\ UNCHANGED <<padVars, planVars, smpVars, shpVars>>

\* the tiles are exhausted: predict_with_tiling returns outputs
TilReturn ==
    /\ til_pc = "loop"
    /\ til_k = TilLen
    /\ til_pc' = "returned"
    /\ UNCHANGED <<tilArgs, til_call, til_k, til_outputs, til_exc, til_writes>>
    /\ UNCHANGED <<padVars, planVars, smpVars, shpVars>>

TilNext == TilEnter \/ TilTile \/ TilReturn

----------------------------------------------------------------------------
\* The _predict_sample specification: one call of _predict_sample on .npy
\* files, with the identity predictor. The tiled path runs the actions of
\* predict_with_tiling above.

\* (mutant) the conflict is tested after the inputs are loaded
ConflictCheckedOnEntryNever(padding, tiling) == FALSE

\* `if padding and tiling` on entry (line 498)
ConflictCheckedOnEntry(padding, tiling) == ~Falsy(padding) /\ ~Falsy(tiling)

SmpShapes == {shp \in ShapesOf(TilAxes, MaxSmpExtent, MaxSmpBatch) : shp[2] = 1}

SmpPipelines ==
    {TilPipeline(d, h) :
        d \in {ListShape(<<1, 1, 2, 2>>), ParamShape(<<1, 1, 1, 1>>, <<0, 0, 2, 2>>)},
        h \in {None, Some(<<0, 0, 1, 1>>)}}

SmpPaddings ==
    {NoSetting, BoolSetting(FALSE), BoolSetting(TRUE), DictSetting(<<>>),
     DictSetting([mode |-> "fixed", y |-> 2, x |-> 2]), DictSetting([y |-> 2, x |-> 2])}

SmpTilings ==
    {NoSetting, BoolSetting(FALSE), BoolSetting(TRUE), DictSetting(<<>>),
     DictSetting([halo |-> [y |-> 1, x |-> 1], tile |-> [y |-> 1, x |-> 1]]),
     DictSetting([halo |-> [y |-> 1, x |-> 1], tile |-> [y |-> 2, x |-> 2]])}

SmpInit ==
    /\ smp_pc = "call"
    /\ smp_pipeline \in SmpPipelines
    /\ \E shp \in SmpShapes : smp_files = <<Distinct(<<>>, shp)>>
    /\ smp_padding \in SmpPaddings
    /\ smp_tiling \in SmpTilings
    \* the tile extents _determine_shape derives (256 and more) are left to
    \* the shape resolver specification
    /\ ~(smp_tiling = BoolSetting(TRUE) /\ smp_pipeline.input_specs[1].shape.kind = "param")
    /\ smp_input_data = None
    /\ smp_called = "none"
    /\ smp_result = None
    /\ smp_saved = None
    /\ smp_exc = None

\* lines 498-499
SmpCheck ==
    /\ smp_pc = "call"
    /\ IF ConflictCheckedOnEntry(smp_padding, smp_tiling)
       THEN smp_pc' = "raised" /\ smp_exc' = Some("ValueError")
       ELSE smp_pc' = "load" /\ UNCHANGED smp_exc
    /\ UNCHANGED <<smpArgs, smp_input_data, smp_called, smp_result, smp_saved>>
    /\ UNCHANGED <<padVars, planVars, tilVars, shpVars>>

\* _load_tensors (line 501): np.load of every source, tagged with the axes
\* of its spec
SmpLoad ==
    /\ smp_pc = "load"
    /\ smp_input_data' =
          Some([k \in 1..Min2(Len(smp_files), Len(smp_pipeline.input_specs)) |->
                  DataArray(smp_files[k], smp_pipeline.input_specs[k].axes)])
    /\ smp_pc' = "dispatch"
    /\ UNCHANGED <<smpArgs, smp_called, smp_result, smp_saved, smp_exc>>
    /\ UNCHANGED <<padVars, planVars, tilVars, shpVars>>

SmpReturned(res) ==
    IF res.status = "ok"
    THEN smp_pc' = "save" /\ smp_result' = Some(res.result) /\ UNCHANGED smp_exc
    ELSE smp_pc' = "raised" /\ smp_exc' = Some(res.status) /\ UNCHANGED smp_result

\* lines 502-503
SmpPadding ==
    /\ smp_pc = "dispatch"
    /\ smp_padding.kind # "None"
    /\ smp_called' = "predict_with_padding"
    /\ SmpReturned(predict_with_padding(smp_pipeline,
                       [kind |-> "list", items |-> smp_input_data[1]], smp_padding,
                       [kind |-> "bool", b |-> TRUE, l |-> <<>>]))
    /\ UNCHANGED <<smpArgs, smp_input_data, smp_saved>>
    /\ UNCHANGED <<padVars, planVars, tilVars, shpVars>>

\* lines 504-505: the call of predict_with_tiling
SmpTiling ==
    /\ smp_pc = "dispatch"
    /\ smp_padding.kind = "None"
    /\ smp_tiling.kind # "None"
    /\ smp_called' = "predict_with_tiling"
    /\ smp_pc' = "tiling"
    /\ til_pc' = "call"
    /\ til_pipeline' = smp_pipeline
    /\ til_inputs' = [kind |-> "list", items |-> smp_input_data[1]]
    /\ til_tiling' = smp_tiling
    /\ til_outputs_arg' = None
    /\ UNCHANGED <<til_call, til_k, til_outputs, til_exc, til_writes>>
    /\ UNCHANGED <<smpArgs, smp_input_data, smp_result, smp_saved, smp_exc>>
    /\ UNCHANGED <<padVars, planVars, shpVars>>

\* line 505: predict_with_tiling returns or raises
SmpTilingDone ==
    /\ smp_pc = "tiling"
    /\ til_pc \in {"returned", "raised"}
    /\ SmpReturned(IF til_pc = "returned" THEN [status |-> "ok", result |-> til_outputs[1]]
                   ELSE Raise(til_exc[1]))
    /\ UNCHANGED <<smpArgs, smp_input_data, smp_called, smp_saved>>
    /\ UNCHANGED <<padVars, planVars, tilVars, shpVars>>

\* lines 506-507
SmpPlain ==
    /\ smp_pc = "dispatch"
    /\ smp_padding.kind = "None"
    /\ smp_tiling.kind = "None"
    /\ smp_called' = "predict"
    /\ SmpReturned(predict(smp_pipeline, [kind |-> "list", items |-> smp_input_data[1]]))
    /\ UNCHANGED <<smpArgs, smp_input_data, smp_saved>>
    /\ UNCHANGED <<padVars, planVars, tilVars, shpVars>>

\* lines 509-512: one output path per result, each result saved with np.save
SmpSave ==
    /\ smp_pc = "save"
    /\ IF Len(smp_result[1]) # 1
       THEN smp_pc' = "raised" /\ smp_exc' = Some("AssertionError") /\ UNCHANGED smp_saved
       ELSE smp_pc' = "done" /\ smp_saved' = smp_result /\ UNCHANGED smp_exc
    /\ UNCHANGED <<smpArgs, smp_input_data, smp_called, smp_result>>
    /\ UNCHANGED <<padVars, planVars, tilVars, shpVars>>

SmpNext ==
    \/ SmpCheck \/ SmpLoad \/ SmpPadding \/ SmpTiling \/ SmpTilingDone \/ SmpPlain \/ SmpSave
    \/ (smp_pc = "tiling" /\ TilNext)

----------------------------------------------------------------------------
\* The shape resolver specification: one call of _determine_shape, the loops
\* taken one pass at a time

ShpLayouts == {<<"c", "y", "x">>, <<"c", "z", "y">>}

\* a 2-D shape that grows over many passes: from 16 in steps of 16
ShpExamples ==
    {[axes |-> <<"b", "c", "y", "x">>, min |-> <<1, 1, 16, 16>>, step |-> <<0, 0, 16, 16>>]}

\* minimum extents from just above the reference length to MaxShpGap below
\* it, steps from 0; an axis that is not spatial has extent 1
ShpInputs(axes) ==
    {i \in ShpExamples : i.axes = axes}
    \cup
    IF axes \notin ShpLayouts THEN {}
    ELSE {[axes |-> axes, min |-> m, step |-> st] :
            m \in {m \in [1..Len(axes) -> {1} \cup ((MinLenOf(axes) - MaxShpGap)..(MinLenOf(axes) + 1))] :
                     \A k \in 1..Len(axes) : (m[k] = 1) <=> ~IsSpatial(axes[k])},
            st \in {st \in [1..Len(axes) -> 0..MaxShpStep] :
                     \A k \in 1..Len(axes) : ~IsSpatial(axes[k]) => st[k] <= 1}}

ShpInit ==
    /\ shp_pc = "for"
    /\ \E axes \in ShpLayouts \cup {i.axes : i \in ShpExamples} : \E i \in ShpInputs(axes) :
        /\ shp_axes = i.axes
        /\ shp_min_shape = i.min
        /\ shp_step = i.step
    /\ shp_k = 1
    /\ shp_len_ax = 0
    /\ shp_shape = <<>>

ShpLast == Min2(Len(shp_axes), Min2(Len(shp_min_shape), Len(shp_step)))

\* lines 349-351 and 355-356: the next axis either enters the while loop or
\* keeps its minimum
ShpAxis ==
    /\ shp_pc = "for"
    /\ shp_k <= ShpLast
    /\ IF Grows(shp_axes[shp_k], shp_step[shp_k])
       THEN /\ shp_len_ax' = shp_min_shape[shp_k]
            /\ shp_pc' = "while"
            /\ UNCHANGED <<shp_k, shp_shape>>
       ELSE /\ shp_shape' = Append(shp_shape, shp_min_shape[shp_k])
            /\ shp_k' = shp_k + 1
            /\ UNCHANGED <<shp_pc, shp_len_ax>>
    /\ UNCHANGED shpArgs
    /\ UNCHANGED <<padVars, planVars, tilVars, smpVars>>

\* lines 352-353: one pass of the while loop
ShpGrow ==
    /\ shp_pc = "while"
    /\ WhileCond(shp_len_ax, MinLenOf(shp_axes))
    /\ shp_len_ax' = shp_len_ax + shp_step[shp_k]
    /\ UNCHANGED <<shp_pc, shpArgs, shp_k, shp_shape>>
    /\ UNCHANGED <<padVars, planVars, tilVars, smpVars>>

\* line 354: the while loop is left
ShpAppend ==
    /\ shp_pc = "while"
    /\ ~WhileCond(shp_len_ax, MinLenOf(shp_axes))
    /\ shp_shape' = Append(shp_shape, shp_len_ax)
    /\ shp_k' = shp_k + 1
    /\ shp_pc' = "for"
    /\ UNCHANGED <<shpArgs, shp_len_ax>>
    /\ UNCHANGED <<padVars, planVars, tilVars, smpVars>>

\* line 357
ShpReturn ==
    /\ shp_pc = "for"
    /\ shp_k > ShpLast
    /\ shp_pc' = "returned"
    /\ UNCHANGED <<shpArgs, shp_k, shp_len_ax, shp_shape>>
    /\ UNCHANGED <<padVars, planVars, tilVars, smpVars>>

ShpNext == ShpAxis \/ ShpGrow \/ ShpAppend \/ ShpReturn

----------------------------------------------------------------------------
\* Specifications: each runs one component and holds the others idle

InitPad == PadInit /\ PlanIdle /\ TilIdle /\ SmpIdle /\ ShpIdle

SpecPad == InitPad /\ [][PadNext]_vars

InitPlan == PlanInit /\ PadIdle /\ TilIdle /\ SmpIdle /\ ShpIdle

SpecPlan == InitPlan /\ [][PlanNext]_vars

InitTiled == TilInit /\ PadIdle /\ PlanIdle /\ SmpIdle /\ ShpIdle

SpecTiled == InitTiled /\ [][TilNext]_vars

InitSample == SmpInit /\ PadIdle /\ PlanIdle /\ TilIdle /\ ShpIdle

SpecSample == InitSample /\ [][SmpNext]_vars

InitShape == ShpInit /\ PadIdle /\ PlanIdle /\ TilIdle /\ SmpIdle

\* _determine_shape runs to its end: nothing suspends it
SpecShape == InitShape /\ [][ShpNext]_vars /\ WF_vars(ShpNext)

----------------------------------------------------------------------------
\* Claims about _pad and _apply_crop (checked under SpecPad)

PadMode == IF "mode" \in DOMAIN pad_padding THEN pad_padding["mode"] ELSE "dynamic"

PadSpatial == {k \in 1..Len(pad_axes) : IsSpatial(pad_axes[k])}

\* fixed mode is asked to shrink some spatial axis
PadShrinks == PadMode = "fixed" /\ \E k \in PadSpatial : pad_padding[pad_axes[k]] < pad_im.shape[k]

\* C3: padding round trip. In dynamic mode, and in fixed mode with every
\* target >= the extent, _pad returns, and the crop it returns applied to
\* the padded array gives back the original array: the same shape and the
\* same element at every position, whatever side each axis was padded on.
C3_PadRoundTrip ==
    /\ (pad_pc # "start" /\ ~PadShrinks) => pad_pc \in {"padded", "cropped"}
    /\ pad_pc = "cropped" =>
          /\ pad_back.shape = pad_im.shape
          /\ \A idx \in Indices(pad_im.shape) : pad_back.data[idx] = pad_im.data[idx]

\* a fixed-mode round trip that padded one axis on the left and one on the right
C3_Witness ==
    /\ pad_pc = "cropped"
    /\ PadMode = "fixed"
    /\ pad_right.kind = "list"
    /\ \E j, k \in PadSpatial :
          /\ pad_right.l[j] = Some(TRUE) /\ pad_res.im.shape[j] > pad_im.shape[j]
          /\ pad_right.l[k] = Some(FALSE) /\ pad_res.im.shape[k] > pad_im.shape[k]
    /\ pad_back.data = pad_im.data

\* C4: fixed padding law. In fixed mode the array _pad returns has the
\* target length on every spatial axis and the input's length on every
\* other axis; when the target of some spatial axis is below its extent,
\* _pad raises the RuntimeError of line 81 and returns no array.
C4_FixedPaddingLaw ==
    PadMode = "fixed" =>
      /\ pad_pc \in {"padded", "cropped"} =>
            \A k \in 1..Len(pad_axes) :
                pad_res.im.shape[k] =
                    IF IsSpatial(pad_axes[k]) THEN pad_padding[pad_axes[k]] ELSE pad_im.shape[k]
      /\ (pad_pc # "start" /\ PadShrinks) =>
            /\ pad_pc = "raised"
            /\ pad_res = Raise("RuntimeError")

\* fixed mode grew one spatial axis to its target and left a batch axis alone
C4_Witness ==
    /\ pad_pc = "padded"
    /\ PadMode = "fixed"
    /\ \E k \in PadSpatial : pad_res.im.shape[k] = pad_padding[pad_axes[k]]
                              /\ pad_im.shape[k] < pad_padding[pad_axes[k]]
    /\ \E k \in 1..Len(pad_axes) : ~IsSpatial(pad_axes[k]) /\ pad_im.shape[k] > 1

\* fixed mode refused to shrink an axis
C4_WitnessRaise == pad_pc = "raised" /\ PadShrinks /\ pad_res = Raise("RuntimeError")

----------------------------------------------------------------------------
\* Claims about _get_tiling (checked under SpecPlan)

PlanSpatial == SpatialAxes(plan_axes)

PlanExtents == SpatialShape(plan_shape, plan_axes)

\* ceil(extent / tile_extent)
CeilDiv(a, b) == (a + b - 1) \div b

\* the spatial position p lies in the inner window of tile t
InInner(t, p) ==
    \A k \in 1..Len(PlanSpatial) :
        LET r == SliceIndices(t.inner[PlanSpatial[k]], PlanExtents[k])
        IN  r.lo <= p[k] /\ p[k] < r.hi

\* how many of the tiles pulled so far hold p in their inner window
InnerCount(p) == Cardinality({j \in 1..Len(plan_yielded) : InInner(plan_yielded[j], p)})

\* the number of positions the inner window of t spans, as the slices state it
InnerArea(t) ==
    LET n == Len(PlanSpatial)
    IN  Prod([k \in 1..n |-> t.inner[PlanSpatial[k]].stop[1] - t.inner[PlanSpatial[k]].start[1]], n)

RECURSIVE InnerAreaSum(_)
InnerAreaSum(j) == IF j = 0 THEN 0 ELSE InnerArea(plan_yielded[j]) + InnerAreaSum(j - 1)

\* C1: partition property. No spatial position lies in the inner window of
\* two tiles, and once the tile sequence is exhausted every spatial position
\* lies in the inner window of exactly one tile and the inner windows span
\* exactly as many positions as the array has; shape (9,9) with tile (4,4)
\* and halo (1,1) gives 9 tiles whose inner areas sum to 81.
C1_Partition ==
    /\ \A p \in Indices(PlanExtents) : InnerCount(p) <= 1
    /\ plan_pc = "exhausted" =>
          /\ \A p \in Indices(PlanExtents) : InnerCount(p) = 1
          /\ InnerAreaSum(Len(plan_yielded)) = Prod(PlanExtents, Len(PlanExtents))
    /\ (plan_pc = "exhausted" /\ plan_shape = <<9, 9>>) =>
          /\ Len(plan_yielded) = 9
          /\ InnerAreaSum(9) = 81

\* the (9,9) example with all its tiles pulled
C1_Witness ==
    /\ plan_pc = "exhausted"
    /\ plan_shape = <<9, 9>>
    /\ plan_tile_shape = [y |-> 4, x |-> 4]
    /\ plan_halo = [y |-> 1, x |-> 1]
    /\ Len(plan_yielded) = 9

\* C5: tile window geometry. Along every spatial axis the tile with index i
\* has inner = [i*tile, min(i*tile + tile, extent)) and
\* outer = [max(i*tile - halo, 0), min(i*tile + tile + halo, extent)); the
\* exhausted sequence holds ceil(extent / tile) tile indices per axis, every
\* combination of them once; extent 10, tile 4, halo 2 gives the inner
\* windows [0,4), [4,8), [8,10), first outer [0,6) and last outer [6,10).
C5_TileGeometry ==
    /\ \A j \in 1..Len(plan_yielded) : \A k \in 1..Len(PlanSpatial) :
          LET t == plan_yielded[j]
              ax == PlanSpatial[k]
              tsh == plan_tile_shape[ax]
              pos == t.start_point[k] * tsh
          IN  /\ t.start_point[k] \in 0..(CeilDiv(PlanExtents[k], tsh) - 1)
              /\ t.inner[ax] = [start |-> <<pos>>, stop |-> <<Min2(pos + tsh, PlanExtents[k])>>]
              /\ t.outer[ax] = [start |-> <<Max2(pos - plan_halo[ax], 0)>>,
                                stop |-> <<Min2(pos + tsh + plan_halo[ax], PlanExtents[k])>>]
    /\ \A i, j \in 1..Len(plan_yielded) :
          plan_yielded[i].start_point = plan_yielded[j].start_point => i = j
    /\ Len(PlanSpatial) = 1 =>
          \A j \in 1..Len(plan_yielded) : plan_yielded[j].start_point[1] = j - 1
    /\ plan_pc = "exhausted" =>
          Len(plan_yielded) =
              Prod([k \in 1..Len(PlanSpatial) |->
                      CeilDiv(PlanExtents[k], plan_tile_shape[PlanSpatial[k]])], Len(PlanSpatial))
    /\ (plan_pc = "exhausted" /\ plan_shape = <<10>>) =>
          /\ Len(plan_yielded) = 3
          /\ plan_yielded[1].inner["x"] = [start |-> <<0>>, stop |-> <<4>>]
          /\ plan_yielded[2].inner["x"] = [start |-> <<4>>, stop |-> <<8>>]
          /\ plan_yielded[3].inner["x"] = [start |-> <<8>>, stop |-> <<10>>]
          /\ plan_yielded[1].outer["x"] = [start |-> <<0>>, stop |-> <<6>>]
          /\ plan_yielded[3].outer["x"] = [start |-> <<6>>, stop |-> <<10>>]

\* the extent 10 example with all its tiles pulled
C5_Witness ==
    /\ plan_pc = "exhausted"
    /\ plan_shape = <<10>>
    /\ plan_tile_shape = [x |-> 4]
    /\ plan_halo = [x |-> 2]
    /\ Len(plan_yielded) = 3

\* C8: tile window invariant. On every spatial axis of every tile, inner lies
\* within outer, and local, applied to an array of outer's extent, selects a
\* range of inner's extent that shifted by outer.start is inner; on the batch
\* and channel axes outer, inner and local are the full range.
C8_WindowInvariant ==
    \A j \in 1..Len(plan_yielded) :
        LET t == plan_yielded[j]
        IN  /\ \A k \in 1..Len(PlanSpatial) :
                  LET ax == PlanSpatial[k]
                      o == t.outer[ax]
                      i == t.inner[ax]
                      l == SliceIndices(t.local[ax], o.stop[1] - o.start[1])
                  IN  /\ o.start[1] <= i.start[1]
                      /\ i.stop[1] <= o.stop[1]
                      /\ l.hi - l.lo = i.stop[1] - i.start[1]
                      /\ l.lo + o.start[1] = i.start[1]
                      /\ l.hi + o.start[1] = i.stop[1]
            /\ \A ax \in {"b", "c"} :
                  /\ t.outer[ax] = slice(None, None)
                  /\ t.inner[ax] = slice(None, None)
                  /\ t.local[ax] = slice(None, None)

\* a tile of an array with batch and channel axes whose outer window extends
\* its inner window on both sides of one axis and is clipped on another
C8_Witness ==
    /\ InAxes("b", plan_axes)
    /\ \E j \in 1..Len(plan_yielded) :
          LET t == plan_yielded[j]
          IN  /\ t.outer["y"].start[1] < t.inner["y"].start[1]
              /\ t.inner["y"].stop[1] < t.outer["y"].stop[1]
              /\ t.outer["x"].stop = t.inner["x"].stop
              /\ t.local["x"].stop = None
              /\ t.local["y"].stop # None

----------------------------------------------------------------------------
\* Claims about predict_with_tiling (checked under SpecTiled)

TilInput == til_inputs.items[1]

TilSpatial == {k \in 1..Len(TilAxes) : IsSpatial(TilAxes[k])}

\* the call passes explicit tiling settings with the given halos allowed
TilExplicitCase(halos) ==
    /\ til_tiling.kind = "dict"
    /\ DOMAIN til_tiling.d # {}
    /\ \A k \in TilSpatial :
          /\ til_tiling.d["tile"][TilAxes[k]] > 0
          /\ til_tiling.d["halo"][TilAxes[k]] \in halos

\* the call leaves the output to predict_with_tiling or supplies a buffer of
\* the input's shape
TilOutputFits == til_outputs_arg = None \/ til_outputs_arg[1][1].shape = TilInput.shape

\* the call returned outputs that equal the input element for element
TilReproduced ==
    /\ til_outputs[1][1].shape = TilInput.shape
    /\ \A idx \in Indices(TilInput.shape) : til_outputs[1][1].data[idx] = TilInput.data[idx]

\* C2: tiled prediction equals direct prediction for the identity predictor:
\* for an input with a batch of one, every tile extent > 0 and every halo
\* >= 0 (halo 0 included), predict_with_tiling runs its tiles, returns, and
\* the outputs equal the input element for element.
C2_TiledEqualsDirect ==
    (til_pc # "call" /\ TilExplicitCase(0..MaxTilHalo) /\ TilOutputFits /\ TilInput.shape[1] = 1) =>
        /\ til_pc \in {"loop", "returned"}
        /\ til_pc = "returned" => TilReproduced

\* What the code does guarantee of the case of C2: with every halo > 0 the
\* call returns the input (not a claim of the documentation; it shows that
\* the halo of 0 alone makes C2 fail).
TiledEqualsDirectPositiveHalo ==
    (til_pc # "call" /\ TilExplicitCase(1..MaxTilHalo) /\ TilOutputFits /\ TilInput.shape[1] = 1) =>
        /\ til_pc \in {"loop", "returned"}
        /\ til_pc = "returned" => TilReproduced

\* a tiled run over several tiles, one of them partial, that returned the input
TiledEqualsDirectWitness ==
    /\ til_pc = "returned"
    /\ til_k >= 4
    /\ TilInput.shape[3] % til_call[1].tile_shape["y"] # 0
    /\ TilReproduced

\* the output position idx lies in the inner window of tile t
TilInInner(t, idx) ==
    \A k \in TilSpatial :
        t.inner[TilAxes[k]].start[1] <= idx[k] /\ idx[k] < t.inner[TilAxes[k]].stop[1]

\* idx lies in the inner window of one of the tiles the loop has handled
TilVisited(idx) == \E j \in 0..(til_k - 1) : TilInInner(TilTileAt(j), idx)

\* the value the output held at idx when the loop began
TilInitial(idx) == IF til_outputs_arg = None THEN 0 ELSE til_outputs_arg[1][1].data[idx]

\* C6: output buffer write discipline. After every prefix of the tile
\* sequence, each output element inside a handled tile's inner window has
\* been assigned exactly once and each element outside all of them has
\* never been assigned and holds its initial value; when the call returns,
\* every output element has been assigned exactly once.
C6_WriteDiscipline ==
    til_call # None =>
        /\ \A idx \in Indices(til_outputs[1][1].shape) :
              IF TilVisited(idx)
              THEN til_writes[1][idx] = 1
              ELSE /\ til_writes[1][idx] = 0
                   /\ til_outputs[1][1].data[idx] = TilInitial(idx)
        /\ til_pc = "returned" =>
              \A idx \in Indices(til_outputs[1][1].shape) : til_writes[1][idx] = 1

\* the loop stands between two tiles of a buffer the caller supplied: some
\* elements are written, the others still hold the caller's -1
C6_Witness ==
    /\ til_pc = "loop"
    /\ til_outputs_arg # None
    /\ 0 < til_k /\ til_k < TilLen
    /\ \E idx \in Indices(til_outputs[1][1].shape) :
          til_writes[1][idx] = 1 /\ til_outputs[1][1].data[idx] = TilInput.data[idx]
    /\ \E idx \in Indices(til_outputs[1][1].shape) :
          til_writes[1][idx] = 0 /\ til_outputs[1][1].data[idx] = -1

\* the call gets as far as the check of the supplied buffer's shape
TilReachesShapeCheck ==
    /\ til_outputs_arg # None
    /\ ~Falsy(til_tiling)
    /\ _parse_tiling(til_tiling, til_pipeline.input_specs, til_pipeline.output_specs).status = "ok"

\* the supplied buffer and the input disagree on the extent of a spatial axis
TilSpatialShapeDiffers ==
    \E k \in TilSpatial : til_outputs_arg[1][1].shape[k] # TilInput.shape[k]

\* C9: output buffer shape check. A supplied buffer is rejected with the
\* NotImplementedError of line 483, before any tile is handled or any
\* element written, exactly when its spatial shape differs from the
\* input's; a buffer of the input's spatial shape is accepted.
C9_BufferShapeCheck ==
    (til_pc # "call" /\ TilReachesShapeCheck) =>
        IF TilSpatialShapeDiffers
        THEN /\ til_pc = "raised"
             /\ til_exc = Some("NotImplementedError")
             /\ til_call = None
        ELSE til_call # None

\* What the code does: the buffer is rejected exactly when its shape differs
\* from the input's on any axis, the batch and channel axes included.
BufferFullShapeCheck ==
    (til_pc # "call" /\ TilReachesShapeCheck) =>
        IF til_outputs_arg[1][1].shape # TilInput.shape
        THEN /\ til_pc = "raised"
             /\ til_exc = Some("NotImplementedError")
             /\ til_call = None
        ELSE til_call # None

\* the tile the loop wrote last, the input region it loaded and the side
\* selection it passed on
TilLastTile == TilTileAt(til_k - 1)

TilLastLoaded == ISel(til_call[1].input_, TilLastTile.outer)

TilLastPadRight == TilePadRight(TilLastTile.outer, til_call[1].input_.dims)

\* what _pad made of the last tile under a side selection
TilLastPadded(padright) ==
    _pad(TilLastLoaded, til_pipeline.input_specs[1].axes,
         TilePadding(til_call[1].tile_shape, til_call[1].halo, til_call[1].input_.dims),
         padright)

\* the padding width the last tile received on axis k
TilLastPadWidth(k) == TilLastPadded(TilLastPadRight).im.shape[k] - TilLastLoaded.shape[k]

\* padding the last tile on the other side of axis k gives the same array
TilSideUnobservable(k) ==
    LET other == [TilLastPadRight EXCEPT !.l[k] = Some(~(@[1]))]
    IN  TilLastPadded(other).im = TilLastPadded(TilLastPadRight).im

\* the last tile is neither the first nor the last tile along axis k
TilLastMiddle(k) ==
    LET inner == TilLastTile.inner[TilAxes[k]]
    IN  inner.start # Some(0) /\ inner.stop # Some(til_call[1].input_.shape[k])

\* the last tile's inner region extended by the halo lies inside axis k
TilLastUnclipped(k) ==
    LET inner == TilLastTile.inner[TilAxes[k]]
        halo == til_call[1].halo[TilAxes[k]]
    IN  inner.start[1] - halo >= 0 /\ inner.stop[1] + halo <= til_call[1].input_.shape[k]

\* C11 as stated: every tile that is neither the first nor the last along a
\* spatial axis is padded by width zero on that axis, so that the side it
\* would be padded on cannot be observed.
C11_PaddingOnlyAtExtremeTiles ==
    (til_call # None /\ til_k > 0) =>
        \A k \in TilSpatial :
            TilLastMiddle(k) => TilLastPadWidth(k) = 0 /\ TilSideUnobservable(k)

\* C11 amended: a tile is padded by width zero on a spatial axis, and its
\* pad side cannot be observed, whenever its inner region extended by the
\* halo lies inside the array on that axis. A tile that is neither first nor
\* last but lies within the halo of an end of the axis is padded.
C11_PaddingOnlyAtClippedTiles ==
    (til_call # None /\ til_k > 0) =>
        \A k \in TilSpatial :
            TilLastUnclipped(k) => TilLastPadWidth(k) = 0 /\ TilSideUnobservable(k)

\* a middle tile with its whole halo inside the array on one axis was
\* written, while it was padded on the other axis
C11_Witness ==
    /\ til_call # None
    /\ til_k > 0
    /\ \E k \in TilSpatial :
          TilLastMiddle(k) /\ TilLastUnclipped(k) /\ til_call[1].halo[TilAxes[k]] > 0
    /\ \E k \in TilSpatial : TilLastPadWidth(k) > 0

\* C12: per-tile input count. Once the tile loop is entered, no tile is
\* rejected by the input-count check of predict_with_padding, whatever the
\* extent of the tile's leading axis: the call never ends in the
\* AssertionError of that check.
C12_TileInputCount ==
    til_call # None => ~(til_pc = "raised" /\ til_exc = Some("AssertionError"))

----------------------------------------------------------------------------
\* Claims about _predict_sample (checked under SpecSample)

\* a settings argument that switches its path on: True or a non-empty dict
SmpSet(x) == x = BoolSetting(TRUE) \/ (x.kind = "dict" /\ DOMAIN x.d # {})

\* C7: config conflict. _predict_sample called with both padding and tiling
\* set raises ValueError before it loads an input, calls a prediction
\* function or saves an output.
C7_ConfigConflict ==
    (smp_pc # "call" /\ SmpSet(smp_padding) /\ SmpSet(smp_tiling)) =>
        /\ smp_pc = "raised"
        /\ smp_exc = Some("ValueError")
        /\ smp_input_data = None
        /\ smp_called = "none"
        /\ til_pc = "idle"
        /\ smp_result = None
        /\ smp_saved = None

\* the call with a padding dict and tiling=True has raised
C7_Witness ==
    /\ smp_pc = "raised"
    /\ smp_padding.kind = "dict" /\ DOMAIN smp_padding.d # {}
    /\ smp_tiling = BoolSetting(TRUE)
    /\ smp_exc = Some("ValueError")
    /\ smp_input_data = None

\* a settings argument that switches its path off: None or False
SmpOff(x) == x = NoSetting \/ x = BoolSetting(FALSE)

\* the call ended in the ValueError that rejects the configuration: the one
\* of line 499, or the one a prediction function raises for a setting that
\* is off (lines 323-324 and 432-433)
SmpConfigError ==
    /\ smp_pc = "raised"
    /\ smp_exc = Some("ValueError")
    /\ \/ smp_called = "none"
       \/ smp_called = "predict_with_padding" /\ Falsy(smp_padding)
       \/ smp_called = "predict_with_tiling" /\ Falsy(smp_tiling)

\* C13: dispatch of _predict_sample. With one of padding and tiling set and
\* the other off (None or False) the path that is set runs and the
\* configuration is not rejected; with both off plain prediction runs.
C13_Dispatch ==
    smp_pc \notin {"call", "load", "dispatch"} =>
        /\ (SmpSet(smp_padding) /\ SmpOff(smp_tiling)) =>
              smp_called = "predict_with_padding" /\ ~SmpConfigError
        /\ (SmpOff(smp_padding) /\ SmpSet(smp_tiling)) =>
              smp_called = "predict_with_tiling" /\ ~SmpConfigError
        /\ (SmpOff(smp_padding) /\ SmpOff(smp_tiling)) => smp_called = "predict"

----------------------------------------------------------------------------
\* Claims about _determine_shape (checked under SpecShape)

\* v is the smallest min + k*step, k a natural number, that is >= ref
SmallestReaching(v, min, step, ref) ==
    /\ v >= ref
    /\ v >= min
    /\ (v - min) % step = 0
    /\ v = min \/ v - step < ref

ShpCorrect ==
    /\ Len(shp_shape) = Len(shp_axes)
    /\ \A k \in 1..Len(shp_axes) :
          IF IsSpatial(shp_axes[k]) /\ shp_step[k] > 0
          THEN SmallestReaching(shp_shape[k], shp_min_shape[k], shp_step[k],
                                IF InAxes("z", shp_axes) THEN 64 ELSE 256)
          ELSE shp_shape[k] = shp_min_shape[k]
    /\ shp_shape = _determine_shape(shp_min_shape, shp_step, shp_axes)

\* C10: automatic tile extent. _determine_shape terminates, and it returns
\* for every spatial axis with step > 0 the smallest min + k*step that is
\* >= the reference length (64 when z is among the axes, 256 otherwise), and
\* min for every axis with step 0 and every axis that is not spatial.
C10_DetermineShape ==
    /\ [](shp_pc = "returned" => ShpCorrect)
    /\ <>(shp_pc = "returned")

\* a returned 3-D shape with an axis grown in two steps, an axis with step 0
\* and a channel axis with a step
C10_Witness ==
    /\ shp_pc = "returned"
    /\ InAxes("z", shp_axes)
    /\ \E k \in 1..Len(shp_axes) :
          IsSpatial(shp_axes[k]) /\ shp_shape[k] = shp_min_shape[k] + 2 * shp_step[k]
                                 /\ shp_step[k] > 0
    /\ \E k \in 1..Len(shp_axes) :
          IsSpatial(shp_axes[k]) /\ shp_step[k] = 0 /\ shp_min_shape[k] < 64
    /\ \E k \in 1..Len(shp_axes) : ~IsSpatial(shp_axes[k]) /\ shp_step[k] > 0

====
